---- MODULE Spec2Model ----
(***************************************************************************)
(* CopilotService (src/src/main/desktop-window.ts, lines 163-415): the     *)
(* session orchestrator of copilot-bar.  One service object owns a backend *)
(* client, a map from session keys to backend sessions, the model          *)
(* watermark (currentModel) and the event callbacks.  Its async methods    *)
(* run on one event loop: a method runs without interruption up to its     *)
(* next await, so every action below is one such run-to-await segment.     *)
(***************************************************************************)
EXTENDS Integers, Sequences, FiniteSets, TLC

\* ------------------------------------------------------------------ bounds
MaxCreate == 3          \* createSession invocations per behaviour
MaxClient == 2          \* CopilotClient objects constructed per behaviour
MaxHist   == 4          \* operations recorded in a sequential behaviour
MaxCalls  == 2          \* calls begun in a behaviour whose calls interleave
MaxEvents == 3          \* session events processed per behaviour
MaxRegs   == 3          \* calls of the handler setters per behaviour
MaxShots  == 2          \* setLastScreenshot calls per behaviour
MaxRace   == 3          \* calls begun in a behaviour of a call followed by a race

Keys     == {1, 2}                  \* session keys the callers use
Models   == {"m1", "m2"}            \* values of config.model
Calls    == {1, 2}                  \* slots of calls that may be in flight
ToolNames == {"X", "capture_screenshot"}
CallIds  == {"c1", "c2"}
Handlers == {1, 2}                  \* callbacks a caller may register
SendErrors == {"dead", "timeout"}   \* what sendAndWait may reject with
Contents == {"text", ""}            \* response.data.content
EventKinds == {"tool", "widget", "stream", "screenshot", "usage"}   \* one callback each

SessionIds == 1..(MaxCreate + 1)
ClientIds  == 1..(MaxClient + 1)

VARIABLES
    client,         \* this.client: 0 is null, else the id of a CopilotClient
    cstate,         \* per CopilotClient: "unused", "starting", "started", "failed", "stopped"
    nclients,       \* CopilotClient objects constructed so far
    sessions,       \* this.sessions: key -> session id, 0 when the key is absent
    currentModel,   \* this.currentModel ("" initially)
    activeTools,    \* this.activeTools: toolCallId -> toolName, "" when absent
    onToolEvent,    \* this.onToolEvent: 0 is null, else a handler
    onWidgetEvent,  \* this.onWidgetEvent
    onStreamDelta,  \* this.onStreamDelta
    onScreenshotEvent, \* this.onScreenshotEvent
    onModelUsage,   \* this.onModelUsage
    registered,     \* per event kind, the handler last passed to its setter (0: none yet)
    nregs,          \* calls of the setters so far
    event,          \* the latest session event counted in nevents: its type, session and data
    delivered,      \* the calls of the handlers made for that event, in order
    lastScreenshot, \* helpers.ts lastScreenshotPath: 0 is null, else the screenshot set
    expired,        \* Date.now() - lastScreenshotTime >= SCREENSHOT_EXPIRY_MS
    nshots,         \* setLastScreenshot calls so far
    carried,        \* the attachments the messages of chat() carried, in order
    configModel,    \* loadConfig().model
    sess,           \* the CopilotSession objects the backend has returned
    nsess,          \* sessions returned by createSession so far
    createCalls,    \* createSession invocations so far
    calls,          \* the calls in flight, each at its await
    evLog,          \* the tool events processed, in order, each with what it emitted
    nevents,        \* session events processed so far
    ncalls,         \* calls begun so far
    hist            \* sequential behaviours: the operations completed, in order

vars == <<client, cstate, nclients, sessions, currentModel, activeTools, onToolEvent,
          onWidgetEvent, onStreamDelta, onScreenshotEvent, onModelUsage, registered,
          nregs, event, delivered, lastScreenshot, expired, nshots, carried, configModel, sess,
          nsess, createCalls, calls, evLog, nevents, ncalls, hist>>

\* The service's own fields and the objects behind them, as one value the
\* run-to-await segments are functions of.
Prog == [client |-> client, cstate |-> cstate, nclients |-> nclients,
         sessions |-> sessions, currentModel |-> currentModel,
         lastScreenshot |-> lastScreenshot, carried |-> carried, sess |-> sess,
         nsess |-> nsess, createCalls |-> createCalls, calls |-> calls]

Apply(st) ==
    /\ client' = st.client
    /\ cstate' = st.cstate
    /\ nclients' = st.nclients
    /\ sessions' = st.sessions
    /\ currentModel' = st.currentModel
    /\ lastScreenshot' = st.lastScreenshot
    /\ carried' = st.carried
    /\ sess' = st.sess
    /\ nsess' = st.nsess
    /\ createCalls' = st.createCalls
    /\ calls' = st.calls

Fits(st) == st.createCalls <= MaxCreate /\ st.nclients <= MaxClient

NoSessionObj == [key |-> 0, model |-> "", destroyCalls |-> 0, subscribed |-> FALSE,
                 regs |-> 0]

\* A call: the method, its sessionId argument, the await it is at, its locals
\* (config.model, session, the sessions being torn down, the client it is
\* starting or stopping, the error it caught), and what is known of its course: the sessions it
\* invoked deleteSession for, the attachment its send carried, what the
\* backend settled its last sendAndWait with, whether a destroy() or
\* deleteSession() of its teardown failed, the backend call that failed, and
\* its outcome.
IdleCall == [op |-> "none", key |-> 0, pc |-> "idle", cfg |-> "", session |-> 0,
             snap |-> {}, cl |-> 0, err |-> "", deleted |-> {}, attached |-> 0, sendOut |-> "",
             tdFail |-> FALSE, failedAt |-> "", status |-> "none", value |-> ""]

\* ------------------------------------------------------------------ helpers

\* Array.from(this.sessions.values())
Values(m) == {m[k] : k \in Keys} \ {0}

\* this.sessions.clear()
EmptyMap == [k \in Keys |-> 0]

\* A call whose promise is never settled: the outcome is computed and the
\* call stays suspended.
SettlePending(st, c, status, value) ==
    [st EXCEPT !.calls[c].status = status, !.calls[c].value = value]

\* A call returns: the promise resolves or rejects with `value`.
Settle(st, c, status, value) ==
    [st EXCEPT !.calls[c].pc = "done", !.calls[c].status = status,
               !.calls[c].value = value, !.calls[c].cl = 0]

\* destroyAndDelete up to its first await: session.destroy() has been invoked
\* on every session of S.
destroyAndDelete(st, S) ==
    [st EXCEPT !.sess = [s \in SessionIds |->
        IF s \in S THEN [st.sess[s] EXCEPT !.destroyCalls = @ + 1] ELSE st.sess[s]]]

\* destroyAndDelete after destroy() settled, for the sessions S of call c:
\* this.client!.deleteSession(sid) is invoked when this.client is not null (on
\* null the property access throws inside the try and nothing is invoked).
deleteSession(st, c, S) ==
    [st EXCEPT !.calls[c].deleted = IF st.client # 0 THEN S ELSE {}]

\* destroyAndDelete without its try/catch: a failure of destroy() or
\* deleteSession() rejects it.
destroyAndDeleteRethrows(failed) == failed

\* Whether destroyAndDelete rejects when destroy() or deleteSession() failed:
\* both calls sit in their own try { } catch {}.
destroyAndDeleteRejects(failed) == FALSE

\* initialize(): this.client = new CopilotClient(); await this.client.start()
initialize(st, c, pc) ==
    [st EXCEPT !.nclients = @ + 1,
               !.client = st.nclients + 1,
               !.cstate[st.nclients + 1] = "starting",
               !.calls[c].cl = st.nclients + 1,
               !.calls[c].pc = pc]

\* helpers.ts getLastScreenshot(): the path, unless there is none or it is
\* older than SCREENSHOT_EXPIRY_MS.
getLastScreenshot(st) == IF st.lastScreenshot # 0 /\ ~expired THEN st.lastScreenshot ELSE 0

\* A clearLastScreenshot() that leaves the path in place.
clearLastScreenshotKeeps(st) == st

\* helpers.ts clearLastScreenshot()
clearLastScreenshot(st) == [st EXCEPT !.lastScreenshot = 0]

\* chat() from the attachment to the await of sendAndWait: the screenshot, if
\* getLastScreenshot() reports one, is attached to the message and cleared.
chatSend(st, c, s) ==
    LET screenshotPath == getLastScreenshot(st)
        st1 == [st EXCEPT !.calls[c].session = s,
                          !.calls[c].attached = screenshotPath,
                          !.calls[c].pc = "send"]
    IN  IF screenshotPath # 0
        THEN clearLastScreenshot([st1 EXCEPT !.carried = Append(@, screenshotPath)])
        ELSE st1

\* compactSession() without its try/catch: the exception reaches the caller.
compactCatchThrows(st, c, e) == Settle(st, c, "rejected", e)

\* The catch block of compactSession(): delete the key, return the failure.
compactCatch(st, c, e) ==
    Settle([st EXCEPT !.sessions[st.calls[c].key] = 0], c, "resolved", e)

\* An exception thrown inside getOrCreateSession reaches chat()'s caller, or
\* the catch block of compactSession().
throwFrom(st, c, e) ==
    IF st.calls[c].op = "compact" THEN compactCatch(st, c, e)
                                  ELSE Settle(st, c, "rejected", e)

\* compactSession() after getOrCreateSession returned: the priming send.
compactPrime(st, c, s) ==
    [st EXCEPT !.calls[c].session = s, !.calls[c].pc = "cprime"]

\* getOrCreateSession without the lookup: createSession is invoked every time.
getOrCreateSession2NoReuse(st, c) ==
    [st EXCEPT !.createCalls = @ + 1, !.calls[c].pc = "create"]

\* getOrCreateSession reserving the key before createSession is awaited.
getOrCreateSession2Reserve(st, c) ==
    LET k == st.calls[c].key
        existing == st.sessions[k]
    IN  IF existing # 0
        THEN IF st.calls[c].op = "chat" THEN chatSend(st, c, existing)
                                        ELSE compactPrime(st, c, existing)
        ELSE [st EXCEPT !.createCalls = @ + 1,
                        !.sessions[k] = MaxCreate + 1,
                        !.calls[c].pc = "create"]

\* getOrCreateSession after the client check: reuse, or invoke createSession
\* on this.client! (a TypeError when a cleanup() has set it to null meanwhile).
getOrCreateSession2(st, c) ==
    LET k == st.calls[c].key
        existing == st.sessions[k]
    IN  IF existing # 0
        THEN IF st.calls[c].op = "chat" THEN chatSend(st, c, existing)
                                        ELSE compactPrime(st, c, existing)
        ELSE IF st.client = 0
        THEN throwFrom([st EXCEPT !.calls[c].failedAt = "client"], c, "TypeError")
        ELSE [st EXCEPT !.createCalls = @ + 1,
                        !.calls[c].pc = "create"]

\* getOrCreateSession(sessionId, model)
getOrCreateSession(st, c) ==
    IF st.client = 0 THEN initialize(st, c, "init_g")
                     ELSE getOrCreateSession2(st, c)

\* chat() after the teardown, if any: the watermark, then the session.
chatAcquire(st, c) ==
    getOrCreateSession([st EXCEPT !.currentModel = st.calls[c].cfg], c)

\* chat() from loadConfig() on, without the recreate-on-change block.
chatConfigNoTeardown(st, c, cfg) ==
    chatAcquire([st EXCEPT !.calls[c].cfg = cfg], c)

\* chat() from loadConfig() on.
chatConfig(st, c, cfg) ==
    LET st1 == [st EXCEPT !.calls[c].cfg = cfg]
        live == Values(st.sessions)
    IN  IF live # {} /\ st.currentModel # cfg
        THEN [destroyAndDelete(st1, live) EXCEPT !.calls[c].snap = live,
                                                 !.calls[c].pc = "teardown"]
        ELSE chatAcquire(st1, c)

\* ------------------------------------------------------------------ chat()

\* The table of calls when a call of method op begins in slot c: the outcomes
\* of the calls that have returned are dropped with it.
NewCall(c, op, k) ==
    [d \in Calls |-> IF d = c THEN [IdleCall EXCEPT !.op = op, !.key = k]
                     ELSE IF calls[d].pc = "done" THEN IdleCall ELSE calls[d]]

\* What the program leaves alone in a method's segment.
EnvUnchanged == UNCHANGED <<activeTools, onToolEvent, onWidgetEvent, onStreamDelta,
                            onScreenshotEvent, onModelUsage, registered, nregs,
                            event, delivered, expired, nshots, configModel, evLog, nevents>>

Free(c) == calls[c].pc \in {"idle", "done"}

\* chat(prompt, sessionId) is called.
ChatBegin(c, k) ==
    /\ Free(c)
    /\ ncalls' = ncalls + 1
    /\ LET st0 == [Prog EXCEPT !.calls = NewCall(c, "chat", k)]
           st1 == IF client = 0 THEN initialize(st0, c, "init")
                                ELSE chatConfig(st0, c, configModel)
       IN  Fits(st1) /\ Apply(st1)
    /\ EnvUnchanged


\* The catch block of chat() without this.sessions.delete(sessionId).
chatCatchNoEvict(st, c, e) ==
    destroyAndDelete([st EXCEPT !.calls[c].err = e, !.calls[c].pc = "evict"],
                     {st.calls[c].session})

\* The catch block of chat(): evict by key, destroy the session, rethrow.
chatCatch(st, c, e) ==
    LET k == st.calls[c].key
        st1 == [st EXCEPT !.sessions[k] = 0,
                          !.calls[c].err = e,
                          !.calls[c].pc = "evict"]
    IN  destroyAndDelete(st1, {st.calls[c].session})

\* return response?.data.content || ""
chatResult(resp) == IF resp = "none" THEN "" ELSE resp

Responses == Contents \cup {"none"}      \* "none": sendAndWait resolved undefined

\* What the backend did to call c's pending request: the step that failed, if
\* one did, and what a sendAndWait settled with.
Backend(c, failedAt, out) ==
    [Prog EXCEPT !.calls[c].failedAt = failedAt, !.calls[c].sendOut = out]

\* listModels() after its client check: return this.client!.listModels()
listModels2(st, c) ==
    IF st.client = 0
    THEN Settle([st EXCEPT !.calls[c].failedAt = "client"], c, "rejected", "TypeError")
    ELSE [st EXCEPT !.calls[c].cl = st.client, !.calls[c].pc = "list"]

\* start() of the client this call constructed returns or throws.
StartReturns(c, ok) ==
    /\ calls[c].pc \in {"init", "init_g", "init_i", "init_l"}
    /\ LET cl == calls[c].cl
           st0 == [Backend(c, IF ok THEN "" ELSE "start", "")
                       EXCEPT !.cstate[cl] = IF ok THEN "started" ELSE "failed"]
           k == calls[c].key
           st1 == IF ok
                  THEN CASE calls[c].pc = "init"   -> chatConfig(st0, c, configModel)
                         [] calls[c].pc = "init_g" -> getOrCreateSession2(st0, c)
                         [] calls[c].pc = "init_i" -> Settle(st0, c, "resolved", "")
                         [] calls[c].pc = "init_l" -> listModels2(st0, c)
                  ELSE throwFrom(st0, c, "E_start")
       IN  Fits(st1) /\ Apply(st1)
    /\ UNCHANGED ncalls
    /\ EnvUnchanged

\* A teardown that clears the map only when every destruction succeeded.
teardownClearUnlessFailed(st, failed) ==
    IF failed THEN st ELSE [st EXCEPT !.sessions = EmptyMap]

\* this.sessions.clear() after await Promise.allSettled(...), which settles
\* whether or not a destruction failed.
teardownClear(st, failed) == [st EXCEPT !.sessions = EmptyMap]

\* Promise.allSettled of the recreate-on-change teardown settles; `failed`
\* says whether some destroy() or deleteSession() failed.
TeardownSettles(c, failed) ==
    /\ calls[c].pc = "teardown"
    /\ LET st0 == deleteSession(Prog, c, calls[c].snap)
           st1 == [teardownClear(st0, failed) EXCEPT !.calls[c].tdFail = failed]
           st2 == chatAcquire(st1, c)
       IN  Fits(st2) /\ Apply(st2)
    /\ UNCHANGED ncalls
    /\ EnvUnchanged

\* session.on(callback)
subscribe(st, s) == [st EXCEPT !.sess[s].subscribed = TRUE]

\* getOrCreateSession without this.sessions.set(sessionId, session).
insertNothing(st, k, s) == st

\* this.sessions.set with one slot for all keys.
insertOneSlot(st, k, s) ==
    [st EXCEPT !.sessions[CHOOSE j \in Keys : \A i \in Keys : j <= i] = s]

\* this.sessions.set(sessionId, session)
insert(st, k, s) == [st EXCEPT !.sessions[k] = s]

\* createSession returns a session (subscribed and inserted at once) or throws.
CreateReturns(c, ok) ==
    /\ calls[c].pc = "create"
    /\ LET k == calls[c].key
           s == nsess + 1
           new == [Prog EXCEPT !.nsess = s,
                               !.sess[s] = [NoSessionObj EXCEPT !.key = k,
                                               !.model = calls[c].cfg,
                                               !.regs = nregs]]
           st0 == insert(subscribe(new, s), k, s)
           bad == Backend(c, "create", "")
           st1 == IF ok
                  THEN IF calls[c].op = "chat" THEN chatSend(st0, c, s)
                                               ELSE compactPrime(st0, c, s)
                  ELSE IF calls[c].op = "chat"
                       THEN Settle(bad, c, "rejected", "E_create")
                       ELSE compactCatch(bad, c, "E_create")
       IN  Apply(st1)
    /\ UNCHANGED ncalls
    /\ EnvUnchanged

\* chat()'s sendAndWait resolves with r, or rejects with r (timeout included).
SendReturns(c, r) ==
    /\ calls[c].pc = "send"
    /\ LET st0 == Backend(c, IF r \in Responses THEN "" ELSE "send", r)
           st1 == IF r \in Responses
                  THEN Settle(st0, c, "resolved", chatResult(r))
                  ELSE chatCatch(st0, c, r)
       IN  Apply(st1)
    /\ UNCHANGED ncalls
    /\ EnvUnchanged

\* chat()'s catch block returning "" instead of rethrowing.
swallow(st, c) == Settle(st, c, "resolved", "")

\* throw error, the last statement of chat()'s catch block
rethrow(st, c) == Settle(st, c, "rejected", st.calls[c].err)

\* The eviction's destroyAndDelete settles; then chat() rethrows.
EvictSettles(c, failed) ==
    /\ calls[c].pc = "evict"
    /\ LET st0 == deleteSession(Prog, c, {calls[c].session})
           st1 == [st0 EXCEPT !.calls[c].tdFail = failed]
           st2 == IF destroyAndDeleteRejects(failed)
                  THEN Settle(st1, c, "rejected", "E_teardown")
                  ELSE rethrow(st1, c)
       IN  Apply(st2)
    /\ UNCHANGED ncalls
    /\ EnvUnchanged

\* ------------------------------------------------------------------ initialize(), listModels()

\* initialize() is called.
InitializeBegin(c) ==
    /\ Free(c)
    /\ ncalls' = ncalls + 1
    /\ LET st0 == [Prog EXCEPT !.calls = NewCall(c, "initialize", 0)]
           st1 == initialize(st0, c, "init_i")
       IN  Fits(st1) /\ Apply(st1)
    /\ EnvUnchanged

\* listModels() is called.
ListModelsBegin(c) ==
    /\ Free(c)
    /\ ncalls' = ncalls + 1
    /\ LET st0 == [Prog EXCEPT !.calls = NewCall(c, "listModels", 0)]
           st1 == IF client = 0 THEN initialize(st0, c, "init_l")
                                ELSE listModels2(st0, c)
       IN  Fits(st1) /\ Apply(st1)
    /\ EnvUnchanged

\* client.listModels() returns the models or throws.
ListReturns(c, ok) ==
    /\ calls[c].pc = "list"
    /\ LET st1 == IF ok THEN Settle(Prog, c, "resolved", "models")
                        ELSE Settle(Backend(c, "list", ""), c, "rejected", "E_list")
       IN  Apply(st1)
    /\ UNCHANGED ncalls
    /\ EnvUnchanged

\* ------------------------------------------------------------------ compactSession()

\* compactSession(sessionId) is called.
CompactBegin(c, k) ==
    /\ Free(c)
    /\ ncalls' = ncalls + 1
    /\ LET st0 == [Prog EXCEPT !.calls = NewCall(c, "compact", k)]
           s == sessions[k]
           st1 == IF s = 0
                  THEN Settle(st0, c, "resolved", "No active session to compact")
                  ELSE [st0 EXCEPT !.calls[c].session = s, !.calls[c].pc = "csum"]
       IN  Apply(st1)
    /\ EnvUnchanged

\* The summary sendAndWait resolves with r or rejects with r.
SummaryReturns(c, r) ==
    /\ calls[c].pc = "csum"
    /\ LET st0 == Backend(c, IF r \in SendErrors \/ chatResult(r) = ""
                                 THEN "summary" ELSE "", r)
           st1 == IF r \in SendErrors
                  THEN compactCatch(st0, c, r)
                  ELSE IF chatResult(r) = ""
                  THEN Settle(st0, c, "resolved", "Failed to generate summary")
                  ELSE [destroyAndDelete(st0, {calls[c].session})
                            EXCEPT !.calls[c].pc = "cdestroy"]
       IN  Apply(st1)
    /\ UNCHANGED ncalls
    /\ EnvUnchanged

\* compactSession() keeping the old session's entry after its teardown.
compactForgetKeeps(st, k) == st

\* this.sessions.delete(sessionId), after the old session's teardown
compactForget(st, k) == [st EXCEPT !.sessions[k] = 0]

\* The old session's destroyAndDelete settles: delete the key, read the
\* configuration, set the watermark, create the fresh session.
CompactDestroySettles(c, failed) ==
    /\ calls[c].pc = "cdestroy"
    /\ LET k == calls[c].key
           st0 == [deleteSession(Prog, c, {calls[c].session})
                       EXCEPT !.calls[c].tdFail = failed]
           st1 == [compactForget(st0, k)
                          EXCEPT !.calls[c].cfg = configModel,
                              !.calls[c].session = 0,
                              !.currentModel = configModel]
           st2 == IF destroyAndDeleteRejects(failed)
                  THEN compactCatch(st0, c, "E_teardown")
                  ELSE getOrCreateSession(st1, c)
       IN  Fits(st2) /\ Apply(st2)
    /\ UNCHANGED ncalls
    /\ EnvUnchanged

\* The priming sendAndWait resolves or rejects.
PrimeReturns(c, r) ==
    /\ calls[c].pc = "cprime"
    /\ LET st0 == Backend(c, IF r \in SendErrors THEN "prime" ELSE "", r)
           st1 == IF r \in SendErrors
                  THEN compactCatch(st0, c, r)
                  ELSE Settle(st0, c, "resolved", "summary")
       IN  Apply(st1)
    /\ UNCHANGED ncalls
    /\ EnvUnchanged

\* ------------------------------------------------------------------ cleanup()

\* cleanup() from its second if: stop the client if there is one.
cleanupStop(st, c) ==
    IF st.client # 0
    THEN [st EXCEPT !.calls[c].cl = st.client, !.calls[c].pc = "kstop"]
    ELSE Settle(st, c, "resolved", "")

\* cleanup() is called.
CleanupBegin(c) ==
    /\ Free(c)
    /\ ncalls' = ncalls + 1
    /\ LET st0 == [Prog EXCEPT !.calls = NewCall(c, "cleanup", 0)]
           live == Values(sessions)
           st1 == IF client # 0 /\ live # {}
                  THEN [destroyAndDelete(st0, live) EXCEPT !.calls[c].snap = live,
                                                           !.calls[c].pc = "kdestroy"]
                  ELSE cleanupStop(st0, c)
       IN  Apply(st1)
    /\ EnvUnchanged

\* cleanup()'s Promise.allSettled settles.
CleanupDestroySettles(c, failed) ==
    /\ calls[c].pc = "kdestroy"
    /\ LET st0 == deleteSession(Prog, c, calls[c].snap)
           st1 == [st0 EXCEPT !.sessions = EmptyMap, !.calls[c].tdFail = failed]
       IN  Apply(cleanupStop(st1, c))
    /\ UNCHANGED ncalls
    /\ EnvUnchanged

\* client.stop() returns or throws.
StopReturns(c, ok) ==
    /\ calls[c].pc = "kstop"
    /\ LET cl == calls[c].cl
           st1 == IF ok
                  THEN Settle([Prog EXCEPT !.cstate[cl] = "stopped", !.client = 0],
                              c, "resolved", "")
                  ELSE Settle(Backend(c, "stop", ""), c, "rejected", "E_stop")
       IN  Apply(st1)
    /\ UNCHANGED ncalls
    /\ EnvUnchanged

\* ------------------------------------------------------------------ the event callback

ProgUnchanged == UNCHANGED <<client, cstate, nclients, currentModel, lastScreenshot,
                             carried, expired, nshots, sess, nsess, createCalls, calls,
                             ncalls>>

\* The callbacks registered: no setter is called.
HandlersUnchanged == UNCHANGED <<onToolEvent, onWidgetEvent, onStreamDelta,
                                 onScreenshotEvent, onModelUsage, registered, nregs>>

\* The session.error branch clearing the whole map.
onSessionErrorClear(m, k) == EmptyMap

\* session.on callback, event.type === "session.error": the closure's
\* sessionId is deleted from the map.
onSessionError(m, k) == [m EXCEPT ![k] = 0]

\* A session the service subscribed to emits session.error.
SessionError(s) ==
    /\ sess[s].subscribed
    /\ sessions' = onSessionError(sessions, sess[s].key)
    /\ ProgUnchanged /\ HandlersUnchanged
    /\ UNCHANGED <<activeTools, event, delivered, configModel, nevents>>

\* The tool-event handed to this.onToolEvent, if it is set.
Emit(type, name, id) ==
    IF onToolEvent # 0
    THEN <<[type |-> type, toolName |-> name, toolCallId |-> id]>>
    ELSE <<>>

\* The event as processed: its type, its session, its data, what it emitted.
Processed(type, s, name, id, emitted) ==
    [type |-> type, session |-> s, toolName |-> name, toolCallId |-> id,
     emitted |-> emitted]

\* A session event: its type, the session that emitted it, its data.
Event(type, s, data) == [type |-> type, session |-> s, data |-> data]

\* One call of a handler: the kind of the callback, the handler called, and
\* the fields of the argument.
Call(kind, to, arg) == [kind |-> kind, to |-> to, arg |-> arg]

\* The calls of this.onToolEvent for the tool-events emitted.
ToolCalls(emitted) ==
    [i \in 1..Len(emitted) |->
        Call("tool", onToolEvent,
             <<emitted[i].type, emitted[i].toolName, emitted[i].toolCallId>>)]

\* this.activeTools after tool.execution_start: the entry is set only inside
\* the branch that requires this.onToolEvent.
onToolStart(tools, name, id) ==
    IF onToolEvent # 0 THEN [tools EXCEPT ![id] = name] ELSE tools

\* A session emits tool.execution_start with toolName and toolCallId.
ToolStart(s, name, id) ==
    /\ sess[s].subscribed
    /\ nevents < MaxEvents
    /\ nevents' = nevents + 1
    /\ event' = Event("tool.execution_start", s, <<name, id>>)
    /\ activeTools' = onToolStart(activeTools, name, id)
    /\ delivered' = ToolCalls(Emit("start", name, id))
    /\ ProgUnchanged /\ HandlersUnchanged
    /\ UNCHANGED <<sessions, configModel>>

\* The lookup without the placeholder: this.activeTools.get(event.data.toolCallId)
lookupToolNoPlaceholder(tools, id) == tools[id]

\* this.activeTools.get(event.data.toolCallId) || "tool"
lookupTool(tools, id) == IF tools[id] = "" THEN "tool" ELSE tools[id]

\* ---- event.data.result.content and JSON.parse

Absent == "absent"          \* event.data.result, or its content, is undefined
Undefined == "undefined"    \* a property the parsed value does not have

\* The result contents the tools' events carry here: none, the empty string,
\* text that is not JSON, JSON that is not an object, and objects with and
\* without a widget property and the screenshot properties.
Results ==
    {Absent, "", "plain text", "null", "42", "{}",
     "{\"widget\":\"timer\"}", "{\"widget\":\"\"}",
     "{\"success\":true,\"path\":\"/p\"}",
     "{\"widget\":\"timer\",\"success\":true,\"url\":\"u\"}"}

\* The optional properties of a widget-event.
OptionalFields ==
    {"duration", "label", "cities", "category", "enabled", "connected",
     "currentNetwork", "savedNetworks", "error"}

\* The countdown tool's result, with a duration and a label, and results of the
\* wifi tool: connected to a network, and turned off.
CountdownResult == "{\"widget\":\"countdown\",\"duration\":60,\"label\":\"tea\"}"
WifiResult ==
    "{\"widget\":\"wifi\",\"enabled\":true,\"connected\":true,\"currentNetwork\":\"Home\",\"savedNetworks\":[]}"
WifiOffResult ==
    "{\"widget\":\"wifi\",\"enabled\":false,\"connected\":false,\"currentNetwork\":null,\"savedNetworks\":[]}"

Parsed(kind, widget, success, path, url) ==
    [kind |-> kind, widget |-> widget, success |-> success, path |-> path, url |-> url,
     fields |-> [f \in OptionalFields |-> Undefined]]

\* JSON.parse(text): the value's kind and the properties the callback reads;
\* kind "SyntaxError" when the text is not JSON.
JSONparse(text) ==
    CASE text = "null" -> Parsed("null", Undefined, Undefined, Undefined, Undefined)
      [] text = "42"   -> Parsed("number", Undefined, Undefined, Undefined, Undefined)
      [] text = "{}"   -> Parsed("object", Undefined, Undefined, Undefined, Undefined)
      [] text = "{\"widget\":\"timer\"}"
                       -> Parsed("object", "timer", Undefined, Undefined, Undefined)
      [] text = "{\"widget\":\"\"}"
                       -> Parsed("object", "", Undefined, Undefined, Undefined)
      [] text = "{\"success\":true,\"path\":\"/p\"}"
                       -> Parsed("object", Undefined, "true", "/p", Undefined)
      [] text = "{\"widget\":\"timer\",\"success\":true,\"url\":\"u\"}"
                       -> Parsed("object", "timer", "true", Undefined, "u")
      [] text = CountdownResult
                       -> [Parsed("object", "countdown", Undefined, Undefined, Undefined)
                               EXCEPT !.fields["duration"] = "60",
                                      !.fields["label"] = "tea"]
      [] text = WifiResult
                       -> [Parsed("object", "wifi", Undefined, Undefined, Undefined)
                               EXCEPT !.fields["enabled"] = "true",
                                      !.fields["connected"] = "true",
                                      !.fields["currentNetwork"] = "Home",
                                      !.fields["savedNetworks"] = "[]"]
      [] text = WifiOffResult
                       -> [Parsed("object", "wifi", Undefined, Undefined, Undefined)
                               EXCEPT !.fields["enabled"] = "false",
                                      !.fields["connected"] = "false",
                                      !.fields["currentNetwork"] = "null",
                                      !.fields["savedNetworks"] = "[]"]
      [] OTHER         -> Parsed("SyntaxError", Undefined, Undefined, Undefined, Undefined)

\* JavaScript truthiness of a property value.
Truthy(v) == v \notin {Undefined, "", "false", "null", "0"}

\* Reading a property of the parsed value throws on null (a TypeError, caught
\* like the SyntaxError of JSON.parse by the same try block).
Throws(result) == result.kind \in {"SyntaxError", "null"}

\* The optional properties of the widget-event built from the parsed result:
\* each is result.<field>, except currentNetwork: result.currentNetwork ?? null
widgetPayload(result) ==
    [f \in OptionalFields |->
        IF f = "currentNetwork" /\ result.fields[f] \in {Undefined, "null"}
        THEN "null" ELSE result.fields[f]]

\* if (this.onWidgetEvent && result.widget) this.onWidgetEvent({type: result.widget, ...})
widgetEvents(content) ==
    IF content = Absent \/ content = "" THEN <<>>
    ELSE LET result == JSONparse(content)
         IN  IF Throws(result) THEN <<>>
             ELSE IF onWidgetEvent # 0 /\ Truthy(result.widget)
             THEN <<Call("widget", onWidgetEvent,
                         <<result.widget, widgetPayload(result)>>)>>
             ELSE <<>>

\* if (this.onScreenshotEvent && toolName === "capture_screenshot" && result.success)
\*     if (result.path || result.url) this.onScreenshotEvent({path, url})
screenshotEvents(toolName, content) ==
    IF content = Absent \/ content = "" THEN <<>>
    ELSE LET result == JSONparse(content)
         IN  IF Throws(result) THEN <<>>
             ELSE IF /\ onScreenshotEvent # 0
                     /\ toolName = "capture_screenshot"
                     /\ Truthy(result.success)
                     /\ (Truthy(result.path) \/ Truthy(result.url))
             THEN <<Call("screenshot", onScreenshotEvent, <<result.path, result.url>>)>>
             ELSE <<>>

\* The result block placed inside the if (this.onToolEvent) of the branch.
resultEventsWithToolHandler(toolName, content) ==
    IF onToolEvent # 0
    THEN widgetEvents(content) \o screenshotEvents(toolName, content)
    ELSE <<>>

\* The result block with its two tests in the other order.
resultEventsScreenshotFirst(toolName, content) ==
    screenshotEvents(toolName, content) \o widgetEvents(content)

\* if (event.data.result?.content) { try { ... } catch { } }: the widget-event,
\* then the screenshot-event.
resultEvents(toolName, content) ==
    widgetEvents(content) \o screenshotEvents(toolName, content)

\* A session emits tool.execution_complete with the toolCallId and a result:
\* the name is looked up, the entry deleted, the tool-event forwarded, the
\* result's widget and screenshot extracted.
ToolCompleteResult(s, id, content) ==
    /\ sess[s].subscribed
    /\ nevents < MaxEvents
    /\ nevents' = nevents + 1
    /\ event' = Event("tool.execution_complete", s, <<id, content>>)
    /\ activeTools' = [activeTools EXCEPT ![id] = ""]
    /\ LET toolName == lookupTool(activeTools, id)
       IN  delivered' = ToolCalls(Emit("complete", toolName, id))
                            \o resultEvents(toolName, content)
    /\ ProgUnchanged /\ HandlersUnchanged
    /\ UNCHANGED <<sessions, configModel>>

\* A session emits tool.execution_complete, which carries the toolCallId only.
ToolComplete(s, id) == ToolCompleteResult(s, id, Absent)

\* The delta forwarded whether or not it is nested under a tool call.
streamEventsNested(content, parent) ==
    IF onStreamDelta # 0 /\ content # ""
    THEN <<Call("stream", onStreamDelta, <<"msg", content>>)>> ELSE <<>>

\* if (event.data.deltaContent && !event.data.parentToolCallId)
\*     this.onStreamDelta({messageId, content: event.data.deltaContent})
streamEvents(content, parent) ==
    IF onStreamDelta # 0 /\ content # "" /\ parent = ""
    THEN <<Call("stream", onStreamDelta, <<"msg", content>>)>> ELSE <<>>

\* A session emits assistant.message_delta: forwarded when it has content and
\* no parent tool call.
MessageDelta(s, content, parent) ==
    /\ sess[s].subscribed
    /\ nevents < MaxEvents
    /\ nevents' = nevents + 1
    /\ event' = Event("assistant.message_delta", s, <<content, parent>>)
    /\ delivered' = streamEvents(content, parent)
    /\ ProgUnchanged /\ HandlersUnchanged
    /\ UNCHANGED <<sessions, activeTools, configModel>>

\* The usage forwarded whether or not the event names a model.
usageEventsAlways(model, counts) ==
    IF onModelUsage # 0
    THEN <<Call("usage", onModelUsage, <<model>> \o counts)>> ELSE <<>>

\* if (... && this.onModelUsage && event.data.model)
\*     this.onModelUsage({model, inputTokens, outputTokens, cost})
usageEvents(model, counts) ==
    IF onModelUsage # 0 /\ model # ""
    THEN <<Call("usage", onModelUsage, <<model>> \o counts)>> ELSE <<>>

\* A session emits assistant.usage with a model and, in counts, its
\* inputTokens, outputTokens and cost when it reports them.
UsageCounts(s, model, counts) ==
    /\ sess[s].subscribed
    /\ nevents < MaxEvents
    /\ nevents' = nevents + 1
    /\ event' = Event("assistant.usage", s, <<model>> \o counts)
    /\ delivered' = usageEvents(model, counts)
    /\ ProgUnchanged /\ HandlersUnchanged
    /\ UNCHANGED <<sessions, activeTools, configModel>>

\* A session emits assistant.usage: forwarded when it names a model.
Usage(s, model) == UsageCounts(s, model, <<>>)

\* A session emits session.compaction_start or session.compaction_complete:
\* forwarded as a tool-event of the tool "context_compaction".
Compaction(s, type) ==
    /\ sess[s].subscribed
    /\ nevents < MaxEvents
    /\ nevents' = nevents + 1
    /\ event' = Event("session.compaction_" \o type, s, <<>>)
    /\ delivered' = ToolCalls(Emit(type, "context_compaction", "compaction"))
    /\ ProgUnchanged /\ HandlersUnchanged
    /\ UNCHANGED <<sessions, activeTools, configModel>>

\* The other event types: session.start is logged, the rest fall through
\* every branch of the callback.
OtherTypes == {"session.start", "session.idle"}

\* A session emits an event of another type.
OtherEvent(s, type) ==
    /\ sess[s].subscribed
    /\ nevents < MaxEvents
    /\ nevents' = nevents + 1
    /\ event' = Event(type, s, <<>>)
    /\ delivered' = <<>>
    /\ ProgUnchanged /\ HandlersUnchanged
    /\ UNCHANGED <<sessions, activeTools, configModel>>

\* ------------------------------------------------------------------ the callers

\* A setter that keeps the callback registered first.
setHandlerKeepFirst(old, handler) == IF old # 0 THEN old ELSE handler

\* this.onX = handler
setHandler(old, handler) == handler

\* A setter is called with handler h: the call is counted and remembered.
SetterFrame(kind, h) ==
    /\ h \in Handlers
    /\ nregs < MaxRegs
    /\ nregs' = nregs + 1
    /\ registered' = [registered EXCEPT ![kind] = h]
    /\ ProgUnchanged
    /\ UNCHANGED <<sessions, activeTools, event, delivered, configModel, evLog, nevents>>

\* setToolEventHandler(handler)
SetToolEventHandler(h) ==
    /\ onToolEvent # h
    /\ onToolEvent' = setHandler(onToolEvent, h)
    /\ SetterFrame("tool", h)
    /\ UNCHANGED <<onWidgetEvent, onStreamDelta, onScreenshotEvent, onModelUsage>>

\* setWidgetEventHandler(handler)
SetWidgetEventHandler(h) ==
    /\ onWidgetEvent # h
    /\ onWidgetEvent' = setHandler(onWidgetEvent, h)
    /\ SetterFrame("widget", h)
    /\ UNCHANGED <<onToolEvent, onStreamDelta, onScreenshotEvent, onModelUsage>>

\* setStreamHandler(handler)
SetStreamHandler(h) ==
    /\ onStreamDelta # h
    /\ onStreamDelta' = setHandler(onStreamDelta, h)
    /\ SetterFrame("stream", h)
    /\ UNCHANGED <<onToolEvent, onWidgetEvent, onScreenshotEvent, onModelUsage>>

\* setScreenshotEventHandler(handler)
SetScreenshotEventHandler(h) ==
    /\ onScreenshotEvent # h
    /\ onScreenshotEvent' = setHandler(onScreenshotEvent, h)
    /\ SetterFrame("screenshot", h)
    /\ UNCHANGED <<onToolEvent, onWidgetEvent, onStreamDelta, onModelUsage>>

\* setModelUsageHandler(handler)
SetModelUsageHandler(h) ==
    /\ onModelUsage # h
    /\ onModelUsage' = setHandler(onModelUsage, h)
    /\ SetterFrame("usage", h)
    /\ UNCHANGED <<onToolEvent, onWidgetEvent, onStreamDelta, onScreenshotEvent>>

\* helpers.ts setLastScreenshot(path), called by the screenshot tool: a new
\* screenshot, taken now.
SetLastScreenshot ==
    /\ nshots < MaxShots
    /\ nshots' = nshots + 1
    /\ lastScreenshot' = nshots + 1
    /\ expired' = FALSE
    /\ HandlersUnchanged
    /\ UNCHANGED <<client, cstate, nclients, sessions, currentModel, activeTools, event,
                   delivered, carried, configModel, sess, nsess, createCalls, calls,
                   evLog, nevents, ncalls>>

\* SCREENSHOT_EXPIRY_MS pass after the screenshot was taken.
ScreenshotExpires ==
    /\ lastScreenshot # 0 /\ ~expired
    /\ expired' = TRUE
    /\ HandlersUnchanged
    /\ UNCHANGED <<client, cstate, nclients, sessions, currentModel, activeTools, event,
                   delivered, lastScreenshot, nshots, carried, configModel, sess, nsess,
                   createCalls, calls, evLog, nevents, ncalls>>

\* The user picks another model: loadConfig() reports it from now on.
ConfigChange(m) ==
    /\ m # configModel
    /\ configModel' = m
    /\ ProgUnchanged /\ HandlersUnchanged
    /\ UNCHANGED <<sessions, activeTools, event, delivered, evLog, nevents>>

\* ------------------------------------------------------------------ specifications

InitProg ==
    /\ client = 0
    /\ cstate = [i \in ClientIds |-> "unused"]
    /\ nclients = 0
    /\ sessions = EmptyMap
    /\ currentModel = ""
    /\ activeTools = [i \in CallIds |-> ""]
    /\ onToolEvent = 0
    /\ onWidgetEvent = 0
    /\ onStreamDelta = 0
    /\ onScreenshotEvent = 0
    /\ onModelUsage = 0
    /\ registered = [kind \in EventKinds |-> 0]
    /\ nregs = 0
    /\ event = Event("none", 0, <<>>)
    /\ delivered = <<>>
    /\ lastScreenshot = 0
    /\ expired = FALSE
    /\ nshots = 0
    /\ carried = <<>>
    /\ sess = [s \in SessionIds |-> NoSessionObj]
    /\ nsess = 0
    /\ createCalls = 0
    /\ calls = [c \in Calls |-> IdleCall]
    /\ evLog = <<>>
    /\ nevents = 0
    /\ ncalls = 0
    /\ hist = <<>>

Init == InitProg /\ configModel = "m1"

\* The calls interleave at their awaits: any free slot may start a call.
\* A new call takes the lowest free slot (the slots are interchangeable).
FreeSlot(c) == Free(c) /\ \A d \in Calls : Free(d) => c <= d
MayCall == ncalls < MaxCalls

ChatCalled      == \E c \in Calls, k \in Keys :
                       MayCall /\ FreeSlot(c) /\ ChatBegin(c, k) /\ UNCHANGED hist
CompactCalled   == \E c \in Calls, k \in Keys :
                       MayCall /\ FreeSlot(c) /\ CompactBegin(c, k) /\ UNCHANGED hist
CleanupCalled   == \E c \in Calls :
                       MayCall /\ FreeSlot(c) /\ CleanupBegin(c) /\ UNCHANGED hist
StartDone       == \E c \in Calls, ok \in BOOLEAN : StartReturns(c, ok) /\ UNCHANGED hist
TeardownDone    == \E c \in Calls, f \in {FALSE} : TeardownSettles(c, f) /\ UNCHANGED hist
CreateDone      == \E c \in Calls, ok \in BOOLEAN : CreateReturns(c, ok) /\ UNCHANGED hist
SendDone        == \E c \in Calls, r \in {"text", "dead"} :
                       SendReturns(c, r) /\ UNCHANGED hist
EvictDone       == \E c \in Calls, f \in BOOLEAN : EvictSettles(c, f) /\ UNCHANGED hist
SummaryDone     == \E c \in Calls, r \in {"text", "", "dead"} :
                       SummaryReturns(c, r) /\ UNCHANGED hist
CompactDestroyDone == \E c \in Calls, f \in {FALSE} :
                       CompactDestroySettles(c, f) /\ UNCHANGED hist
PrimeDone       == \E c \in Calls, r \in {"text", "dead"} :
                       PrimeReturns(c, r) /\ UNCHANGED hist
CleanupDestroyDone == \E c \in Calls, f \in {FALSE} :
                       CleanupDestroySettles(c, f) /\ UNCHANGED hist
StopDone        == \E c \in Calls, ok \in BOOLEAN : StopReturns(c, ok) /\ UNCHANGED hist
ErrorEvent      == \E s \in SessionIds : SessionError(s) /\ UNCHANGED <<hist, evLog>>
ConfigChanged   == \E m \in Models : ConfigChange(m) /\ UNCHANGED hist

Next ==
    \/ ChatCalled \/ CompactCalled \/ CleanupCalled
    \/ StartDone \/ TeardownDone \/ CreateDone \/ SendDone \/ EvictDone
    \/ SummaryDone \/ CompactDestroyDone \/ PrimeDone
    \/ CleanupDestroyDone \/ StopDone
    \/ ErrorEvent \/ ConfigChanged

Spec == Init /\ [][Next]_vars

\* ---- calls awaited one after the other, with the operations recorded

\* The record of a call: its method and key, the session it used last, and
\* its outcome: "pending" until it returns, then "ok", the backend call that
\* failed, or "none" (compactSession found no session).
Outcome(call) ==
    IF call.pc # "done" THEN "pending"
    ELSE IF call.failedAt # "" THEN call.failedAt
    ELSE IF call.op = "compact" /\ call.value # "summary" THEN "none"
    ELSE "ok"

Entry(call) ==
    [op |-> call.op, key |-> call.key, out |-> Outcome(call), session |-> call.session]

CallOps == {"chat", "compact", "cleanup"}

\* The only slot in use.
One == CHOOSE c \in Calls : \A d \in Calls : c <= d

Quiet == Free(One)
Room == Len(hist) < MaxHist

\* hist after a call began: its entry is added.
Begun == hist' = Append(hist, Entry(calls'[One]))

\* hist after a later segment of the call: its entry, the last of a call, is
\* brought up to date.
LastCall == CHOOSE i \in 1..Len(hist) :
                hist[i].op \in CallOps /\ \A j \in (i+1)..Len(hist) : hist[j].op \notin CallOps

Recorded == hist' = [hist EXCEPT ![LastCall] = Entry(calls'[One])]

SeqChat      == \E k \in Keys : Room /\ ChatBegin(One, k) /\ Begun
SeqCompact   == \E k \in Keys : Room /\ CompactBegin(One, k) /\ Begun
SeqCleanup   == Room /\ CleanupBegin(One) /\ Begun
SeqStart     == \E ok \in BOOLEAN : StartReturns(One, ok) /\ Recorded
SeqTeardown  == \E f \in BOOLEAN : TeardownSettles(One, f) /\ Recorded
SeqCreate    == \E ok \in BOOLEAN : CreateReturns(One, ok) /\ Recorded
SeqSend      == \E r \in Responses \cup SendErrors : SendReturns(One, r) /\ Recorded
SeqEvict     == \E f \in BOOLEAN : EvictSettles(One, f) /\ Recorded
SeqSummary   == \E r \in Responses \cup SendErrors : SummaryReturns(One, r) /\ Recorded
SeqCompactDestroy == \E f \in BOOLEAN : CompactDestroySettles(One, f) /\ Recorded
SeqPrime     == \E r \in Responses \cup SendErrors : PrimeReturns(One, r) /\ Recorded
SeqCleanupDestroy == \E f \in BOOLEAN : CleanupDestroySettles(One, f) /\ Recorded
SeqStop      == \E ok \in BOOLEAN : StopReturns(One, ok) /\ Recorded

\* A session event arrives, between two calls or during one.
SeqError ==
    \E s \in SessionIds :
        /\ Room
        /\ SessionError(s)
        /\ UNCHANGED evLog
        /\ hist' = Append(hist, [op |-> "session.error", key |-> sess[s].key,
                                 out |-> "event", session |-> s])

\* The configured model changes between two calls.
SeqConfig ==
    \E m \in Models :
        /\ Quiet /\ Room
        /\ ConfigChange(m)
        /\ hist' = Append(hist, [op |-> "config", key |-> 0, out |-> m, session |-> 0])

NextSeq ==
    \/ SeqChat \/ SeqCompact \/ SeqCleanup
    \/ SeqStart \/ SeqTeardown \/ SeqCreate \/ SeqSend \/ SeqEvict
    \/ SeqSummary \/ SeqCompactDestroy \/ SeqPrime
    \/ SeqCleanupDestroy \/ SeqStop
    \/ SeqError \/ SeqConfig

SpecSeq == Init /\ [][NextSeq]_vars

\* ---- the event callback at work: chat() calls that succeed, one after the
\* other, and the events of the sessions they created

EvChat    == \E k \in Keys : MayCall /\ ChatBegin(One, k) /\ UNCHANGED hist
EvStart   == StartReturns(One, TRUE) /\ UNCHANGED hist
EvCreate  == CreateReturns(One, TRUE) /\ UNCHANGED hist
EvSend    == SendReturns(One, "text") /\ UNCHANGED hist
EvHandler == \E h \in Handlers : SetToolEventHandler(h) /\ UNCHANGED hist
EvToolStart ==
    \E s \in SessionIds, name \in ToolNames, id \in CallIds :
        /\ ToolStart(s, name, id)
        /\ evLog' = Append(evLog, Processed("start", s, name, id, Emit("start", name, id)))
        /\ UNCHANGED hist
EvToolComplete ==
    \E s \in SessionIds, id \in CallIds :
        /\ ToolComplete(s, id)
        /\ evLog' = Append(evLog, Processed("complete", s, "", id,
                                            Emit("complete", lookupTool(activeTools, id), id)))
        /\ UNCHANGED hist

NextEv ==
    \/ EvChat \/ EvStart \/ EvCreate \/ EvSend
    \/ EvHandler \/ EvToolStart \/ EvToolComplete

SpecEv == Init /\ [][NextEv]_vars

\* ---- the result block of the callback: the session of chat() calls on one
\* key that succeed, the tool and widget callbacks, and tool events with results

\* One chat() call, which creates the session.
HdChat == ncalls = 0 /\ MayCall /\ ChatBegin(One, One) /\ UNCHANGED hist
WgHandler == \E h \in Handlers : SetWidgetEventHandler(h) /\ UNCHANGED hist
WgToolStart ==
    \E s \in SessionIds, name \in ToolNames, id \in CallIds :
        ToolStart(s, name, id) /\ UNCHANGED <<hist, evLog>>
WgComplete ==
    \E s \in SessionIds, id \in CallIds, content \in Results :
        ToolCompleteResult(s, id, content) /\ UNCHANGED <<hist, evLog>>

NextWg ==
    \/ HdChat \/ EvStart \/ EvCreate \/ EvSend
    \/ EvHandler \/ WgHandler \/ WgToolStart \/ WgComplete

SpecWg == Init /\ [][NextWg]_vars

\* ---- the five callbacks and the events of one session

HdStream == \E h \in Handlers : SetStreamHandler(h) /\ UNCHANGED hist
HdScreenshot == \E h \in Handlers : SetScreenshotEventHandler(h) /\ UNCHANGED hist
HdUsage == \E h \in Handlers : SetModelUsageHandler(h) /\ UNCHANGED hist
HdDelta ==
    \E s \in SessionIds, content \in {"", "d"}, parent \in {"", "c1"} :
        MessageDelta(s, content, parent) /\ UNCHANGED <<hist, evLog>>
HdUsed == \E s \in SessionIds, m \in Models \cup {""} : Usage(s, m) /\ UNCHANGED <<hist, evLog>>
HdCompaction ==
    \E s \in SessionIds, type \in {"start", "complete"} :
        Compaction(s, type) /\ UNCHANGED <<hist, evLog>>


\* The result contents of the tools' events here: none, text that is not
\* JSON, and a screenshot result that names a widget.
HdResults == {Absent, "plain text", "{\"widget\":\"timer\",\"success\":true,\"url\":\"u\"}"}

HdToolStart ==
    \E s \in SessionIds, name \in ToolNames :
        ToolStart(s, name, "c1") /\ UNCHANGED <<hist, evLog>>
HdComplete ==
    \E s \in SessionIds, content \in HdResults :
        ToolCompleteResult(s, "c1", content) /\ UNCHANGED <<hist, evLog>>

HdOther ==
    \E s \in SessionIds, type \in OtherTypes :
        OtherEvent(s, type) /\ UNCHANGED <<hist, evLog>>

NextHd ==
    \/ HdChat \/ EvStart \/ EvCreate \/ EvSend
    \/ EvHandler \/ WgHandler \/ HdStream \/ HdScreenshot \/ HdUsage
    \/ HdToolStart \/ HdComplete \/ HdDelta \/ HdUsed \/ HdCompaction \/ HdOther

SpecHd == Init /\ [][NextHd]_vars

\* ---- chat() calls that interleave while screenshots are taken and expire

AttSet == SetLastScreenshot /\ UNCHANGED hist
AttExpire == ScreenshotExpires /\ UNCHANGED hist

NextAtt ==
    \/ ChatCalled \/ StartDone \/ CreateDone \/ SendDone \/ EvictDone
    \/ AttSet \/ AttExpire

SpecAtt == Init /\ [][NextAtt]_vars

\* ---- initialize(), listModels(), chat() and compactSession() interleaving

InitializeCalled == \E c \in Calls :
                        MayCall /\ FreeSlot(c) /\ InitializeBegin(c) /\ UNCHANGED hist
ListModelsCalled == \E c \in Calls :
                        MayCall /\ FreeSlot(c) /\ ListModelsBegin(c) /\ UNCHANGED hist
ListDone == \E c \in Calls, ok \in BOOLEAN : ListReturns(c, ok) /\ UNCHANGED hist

NextInit ==
    \/ InitializeCalled \/ ListModelsCalled \/ ChatCalled \/ CompactCalled
    \/ StartDone \/ ListDone \/ CreateDone \/ SendDone \/ EvictDone
    \/ SummaryDone \/ CompactDestroyDone \/ PrimeDone

SpecInit == Init /\ [][NextInit]_vars

\* ---- chat() calls that interleave at their awaits while the configured
\* model changes; hist records the key of every call begun

ChChat ==
    \E c \in Calls, k \in Keys :
        /\ MayCall /\ FreeSlot(c) /\ ChatBegin(c, k)
        /\ hist' = Append(hist, [op |-> "chat", key |-> k, out |-> "pending",
                                 session |-> 0])

NextChat ==
    \/ ChChat \/ StartDone \/ TeardownDone \/ CreateDone \/ SendDone \/ EvictDone
    \/ ConfigChanged

SpecChat == Init /\ [][NextChat]_vars

\* ---- the widget-event built from a result: one session, the widget callback,
\* and completions whose results carry some, or none, of the optional properties

PlResults == {"{\"widget\":\"timer\"}", CountdownResult, WifiResult, WifiOffResult, "{}"}

PlComplete ==
    \E s \in SessionIds, id \in CallIds, content \in PlResults :
        ToolCompleteResult(s, id, content) /\ UNCHANGED <<hist, evLog>>

NextPl == HdChat \/ EvStart \/ EvCreate \/ EvSend \/ WgHandler \/ PlComplete

SpecPl == Init /\ [][NextPl]_vars

\* ---- the screenshot-event: one session, the tool-event and screenshot
\* callbacks, tool events with results, and the record of the events processed

ScResults ==
    {Absent, "{}", "{\"success\":true,\"path\":\"/p\"}",
     "{\"widget\":\"timer\",\"success\":true,\"url\":\"u\"}"}

ScStart ==
    \E s \in SessionIds, name \in ToolNames :
        /\ ToolStart(s, name, "c1")
        /\ evLog' = Append(evLog, Processed("start", s, name, "c1",
                                            Emit("start", name, "c1")))
        /\ UNCHANGED hist
ScComplete ==
    \E s \in SessionIds, content \in ScResults :
        /\ ToolCompleteResult(s, "c1", content)
        /\ evLog' = Append(evLog, Processed("complete", s, "", "c1",
                                            Emit("complete", lookupTool(activeTools, "c1"), "c1")))
        /\ UNCHANGED hist

NextSc ==
    \/ HdChat \/ EvStart \/ EvCreate \/ EvSend
    \/ EvHandler \/ HdScreenshot \/ ScStart \/ ScComplete

SpecSc == Init /\ [][NextSc]_vars

\* ---- the usage callback: one session, and usage events that name the
\* watermark's model, another model or none, with and without counts

UsCounts == {<<Undefined, Undefined, Undefined>>, <<"12", "7", "0.5">>,
             <<"12", "7", Undefined>>}

UsUsed ==
    \E s \in SessionIds, m \in Models \cup {""}, counts \in UsCounts :
        UsageCounts(s, m, counts) /\ UNCHANGED <<hist, evLog>>

NextUs ==
    \/ HdChat \/ EvStart \/ EvCreate \/ EvSend \/ ConfigChanged
    \/ HdUsage \/ UsUsed

SpecUs == Init /\ [][NextUs]_vars

\* ---- a call that returned, then two calls that interleave: chat(),
\* compactSession() and cleanup() with a session already in the map

MayRace == ncalls < MaxRace

RcChat    == \E c \in Calls, k \in Keys :
                 MayRace /\ FreeSlot(c) /\ ChatBegin(c, k) /\ UNCHANGED hist
RcCompact == \E c \in Calls, k \in Keys :
                 MayRace /\ FreeSlot(c) /\ CompactBegin(c, k) /\ UNCHANGED hist
RcCleanup == \E c \in Calls :
                 MayRace /\ FreeSlot(c) /\ CleanupBegin(c) /\ UNCHANGED hist

NextRace ==
    \/ RcChat \/ RcCompact \/ RcCleanup
    \/ StartDone \/ TeardownDone \/ CreateDone \/ SendDone \/ EvictDone
    \/ SummaryDone \/ CompactDestroyDone \/ PrimeDone
    \/ CleanupDestroyDone \/ StopDone
    \/ ConfigChanged

SpecRace == Init /\ [][NextRace]_vars

\* ---- the backend is live: a call suspended at an await of the backend
\* (start, createSession, sendAndWait, destroy and deleteSession, stop) is
\* resumed, with a result or with an exception

Returns(c) ==
    \/ \E ok \in BOOLEAN : StartReturns(c, ok) /\ UNCHANGED hist
    \/ \E f \in {FALSE} : TeardownSettles(c, f) /\ UNCHANGED hist
    \/ \E ok \in BOOLEAN : CreateReturns(c, ok) /\ UNCHANGED hist
    \/ \E r \in {"text", "dead"} : SendReturns(c, r) /\ UNCHANGED hist
    \/ \E f \in BOOLEAN : EvictSettles(c, f) /\ UNCHANGED hist
    \/ \E r \in {"text", "", "dead"} : SummaryReturns(c, r) /\ UNCHANGED hist
    \/ \E f \in {FALSE} : CompactDestroySettles(c, f) /\ UNCHANGED hist
    \/ \E r \in {"text", "dead"} : PrimeReturns(c, r) /\ UNCHANGED hist
    \/ \E f \in {FALSE} : CleanupDestroySettles(c, f) /\ UNCHANGED hist
    \/ \E ok \in BOOLEAN : StopReturns(c, ok) /\ UNCHANGED hist

BackendReturns == \A c \in Calls : WF_vars(Returns(c))

SpecLive == Spec /\ BackendReturns

\* ------------------------------------------------------------------ claims

\* The model a session in the map was created with.
ModelOf(k) == sess[sessions[k]].model

\* C1: with the calls awaited one after the other, whenever no call is in
\* flight every session in the map was created with the model that is the
\* current watermark (so no two sessions of different models are in the map).
C1_ModelConsistency ==
    Quiet => \A k \in Keys : sessions[k] # 0 => ModelOf(k) = currentModel

\* ---- what the claims speak of

RECURSIVE DestroySum(_)
DestroySum(S) ==
    IF S = {} THEN 0
    ELSE LET s == CHOOSE x \in S : TRUE
         IN  sess[s].destroyCalls + DestroySum(S \ {s})

\* destroy() invocations so far, over all sessions
DestroyTotal == DestroySum(SessionIds)

\* The record without the session ids.
Shape == [i \in 1..Len(hist) |-> [op |-> hist[i].op, key |-> hist[i].key,
                                  out |-> hist[i].out]]

Chat(k, out) == [op |-> "chat", key |-> k, out |-> out]
Config(m) == [op |-> "config", key |-> 0, out |-> m]

\* Every recorded operation is a chat() on key k that has returned.
OnlyChats(k) ==
    /\ hist # <<>>
    /\ \A i \in 1..Len(hist) :
           hist[i].op = "chat" /\ hist[i].key = k /\ hist[i].out # "pending"

\* C2: when chat() finds sessions and a configured model other than the
\* watermark, then at the moment createSession is invoked every session that
\* was in the map has had destroy() invoked exactly once, the map is empty and
\* the watermark is the configured model; from then on the map holds only
\* sessions of the new model; and m1: chat(1); config->m2; chat(1); chat(2)
\* ends with 3 creations, 1 destruction and keys {1,2} both at m2.
C2_RecreateOnChange ==
    /\ \A c \in Calls :
           calls[c].op = "chat" /\ calls[c].snap # {} /\ calls[c].pc = "create"
           => /\ \A s \in calls[c].snap : sess[s].destroyCalls = 1
              /\ sessions = EmptyMap
              /\ currentModel = configModel
    /\ \A c \in Calls :
           calls[c].op = "chat" /\ calls[c].snap # {}
               /\ calls[c].pc \in {"send", "evict", "done"}
           => \A k \in Keys : sessions[k] # 0 => ModelOf(k) = calls[c].cfg
    /\ Shape = <<Chat(1, "ok"), Config("m2"), Chat(1, "ok"), Chat(2, "ok")>>
       => /\ createCalls = 3 /\ DestroyTotal = 1
          /\ sessions[1] # 0 /\ sessions[2] # 0
          /\ ModelOf(1) = "m2" /\ ModelOf(2) = "m2" /\ currentModel = "m2"

C2_Witness ==
    Shape = <<Chat(1, "ok"), Config("m2"), Chat(1, "ok"), Chat(2, "ok")>>

\* C3: when chat() has rejected because its sendAndWait rejected, the map has
\* no entry for its key and destroy() was invoked on the failed session; no
\* later call uses the failed session; and chat(k) with a failing send followed
\* by a successful chat(k) makes exactly 2 creations and at least 1 destruction.
C3_EvictionOnFailure ==
    /\ \A c \in Calls :
           calls[c].pc = "done" /\ calls[c].op = "chat" /\ calls[c].failedAt = "send"
           => /\ calls[c].status = "rejected"
              /\ sessions[calls[c].key] = 0
              /\ sess[calls[c].session].destroyCalls >= 1
    /\ \A i, j \in 1..Len(hist) :
           i < j /\ hist[i].op = "chat" /\ hist[i].out = "send" /\ hist[j].op \in CallOps
           => hist[j].session # hist[i].session
    /\ \A k \in Keys :
           Shape = <<Chat(k, "send"), Chat(k, "ok")>>
           => createCalls = 2 /\ DestroyTotal >= 1

C3_Witness == Shape = <<Chat(1, "send"), Chat(1, "ok")>>

\* C4: chat() calls on one key that all resolved, with no configuration change
\* and no session.error between them, send on one and the same session, and
\* when they are all the service has done createSession was called exactly once.
C4_ReuseOnSuccess ==
    /\ \A k \in Keys :
           OnlyChats(k) /\ (\A i \in 1..Len(hist) : hist[i].out = "ok")
           => /\ createCalls = 1
              /\ \A i \in 1..Len(hist) : hist[i].session = hist[1].session
    /\ \A i \in 1..(Len(hist) - 1) :
           /\ hist[i].op = "chat" /\ hist[i].out = "ok"
           /\ hist[i+1].op = "chat" /\ hist[i+1].out = "ok"
           /\ hist[i].key = hist[i+1].key
           => hist[i+1].session = hist[i].session

C4_Witness ==
    Len(hist) >= 3 /\ OnlyChats(1) /\ \A i \in 1..Len(hist) : hist[i].out = "ok"

C6_FailureIsolation ==
    [][ /\ \A c \in Calls :
             calls[c].pc = "send" /\ calls'[c].pc = "evict"
             => \A b \in Keys \ {calls[c].key} :
                    /\ sessions'[b] = sessions[b]
                    /\ sessions[b] # 0 => sess'[sessions[b]] = sess[sessions[b]]
        /\ \A c \in Calls :
             calls[c].pc = "evict" /\ calls'[c].pc = "done"
             => sessions' = sessions /\ sess' = sess
        /\ \A s \in SessionIds :
             SessionError(s)
             => /\ \A b \in Keys \ {sess[s].key} : sessions'[b] = sessions[b]
                /\ sess' = sess ]_vars

\* Key 1's chat() is evicting its session while key 2's chat() awaits its send
\* on the session the map holds for key 2.
C6_Witness ==
    \E c, d \in Calls :
        /\ calls[c].pc = "evict" /\ calls[c].key = 1
        /\ calls[d].pc = "send" /\ calls[d].key = 2
        /\ sessions[2] = calls[d].session /\ sessions[1] = 0
        /\ sess[calls[d].session].destroyCalls = 0

\* C7: a chat() whose sendAndWait rejected with E rejects with E, also when
\* destroy() or deleteSession() failed during the eviction, and no call's
\* outcome is a teardown failure: a call whose teardown failed and whose other
\* backend calls succeeded returns its normal result.
C7_ErrorPropagation ==
    \A c \in Calls :
        calls[c].pc = "done"
        => /\ calls[c].value # "E_teardown"
           /\ calls[c].op = "chat" /\ calls[c].failedAt = "send"
              => calls[c].status = "rejected" /\ calls[c].value = calls[c].sendOut
           /\ calls[c].tdFail /\ calls[c].failedAt = ""
              => /\ calls[c].status = "resolved"
                 /\ calls[c].op = "compact" => calls[c].value = "summary"

C7_Witness ==
    \E c \in Calls :
        /\ calls[c].pc = "done" /\ calls[c].op = "chat" /\ calls[c].failedAt = "send"
        /\ calls[c].tdFail /\ calls[c].value = "timeout"

\* C8: a chat() that has returned resolved if and only if none of its backend
\* calls (start, createSession, sendAndWait) failed; it resolved with the
\* response's content, or with "" when there was no response or no content;
\* otherwise it rejected.
C8_ResolveIffSuccess ==
    \A c \in Calls :
        calls[c].pc = "done" /\ calls[c].op = "chat"
        => /\ calls[c].status \in {"resolved", "rejected"}
           /\ calls[c].status = "resolved" <=> calls[c].failedAt = ""
           /\ calls[c].status = "resolved"
              => /\ calls[c].sendOut \in Responses
                 /\ calls[c].value = IF calls[c].sendOut \in {"none", ""}
                                     THEN "" ELSE calls[c].sendOut

C8_Witness ==
    \E c \in Calls :
        /\ calls[c].pc = "done" /\ calls[c].op = "chat"
        /\ calls[c].status = "resolved" /\ calls[c].value = ""
        /\ calls[c].sendOut = "none"

\* C9: the step in which createSession throws changes neither the map (which
\* has no entry for the key) nor any session or subscription, and the error
\* reaches the caller (chat() rejects with it); after it the key is absent, and
\* a retry creates a session.
C9_CreateFailureClean ==
    /\ [][ \A c \in Calls :
             calls[c].pc = "create" /\ calls'[c].pc = "done"
             => /\ sessions' = sessions /\ sessions[calls[c].key] = 0
                /\ sess' = sess /\ nsess' = nsess
                /\ calls'[c].value = "E_create"
                /\ calls[c].op = "chat" => calls'[c].status = "rejected" ]_vars
    /\ [](\A k \in Keys :
             /\ Shape = <<Chat(k, "create")>> => sessions = EmptyMap
             /\ Shape = <<Chat(k, "create"), Chat(k, "ok")>>
                => createCalls = 2 /\ nsess = 1 /\ sessions[k] = 1)

C9_Witness ==
    Shape = <<Chat(1, "create"), Chat(1, "ok")>> /\ sessions[1] = 1

\* Event j of the record completes the call that event i of the same session
\* started: same session, same call id, no event of that session with that id
\* between them.
Completes(i, j) ==
    /\ i < j
    /\ evLog[i].type = "start" /\ evLog[j].type = "complete"
    /\ evLog[i].session = evLog[j].session
    /\ evLog[i].toolCallId = evLog[j].toolCallId
    /\ \A m \in (i+1)..(j-1) :
           ~(evLog[m].session = evLog[i].session
               /\ evLog[m].toolCallId = evLog[i].toolCallId)

\* C10: when a session's tool.execution_start with toolName X and id c is
\* processed and later its tool.execution_complete with id c, the 'complete'
\* tool-event emitted has toolName X and toolCallId c, and the 'start'
\* tool-event for (X, c) was emitted before it.
C10_ToolEventCorrelation ==
    \A i, j \in 1..Len(evLog) :
        Completes(i, j) /\ evLog[j].emitted # <<>>
        => /\ evLog[j].emitted = <<[type |-> "complete",
                                    toolName |-> evLog[i].toolName,
                                    toolCallId |-> evLog[i].toolCallId]>>
           /\ evLog[i].emitted = <<[type |-> "start",
                                    toolName |-> evLog[i].toolName,
                                    toolCallId |-> evLog[i].toolCallId]>>


\* ---- C11

\* The result contents that are JSON objects with a widget property, and the
\* value of that property.
HasWidgetField(content) ==
    content \in {"{\"widget\":\"timer\"}", "{\"widget\":\"\"}",
                 "{\"widget\":\"timer\",\"success\":true,\"url\":\"u\"}"}

WidgetValue(content) == IF content = "{\"widget\":\"\"}" THEN "" ELSE "timer"

\* The calls of the widget callback among the calls made for an event.
WidgetCalls(made) == SelectSeq(made, LAMBDA call : call.kind = "widget")

\* Of each of those calls, the callback called and the type of the widget-event.
WidgetTypes(made) ==
    [i \in DOMAIN WidgetCalls(made) |->
        [to |-> WidgetCalls(made)[i].to, type |-> WidgetCalls(made)[i].arg[1]]]

\* The step processes a tool.execution_complete event.
CompleteProcessed ==
    nevents' = nevents + 1 /\ event'.type = "tool.execution_complete"

\* C11 as stated: a tool.execution_complete event hands the registered widget
\* callback exactly one widget-event, of the payload's widget value, when its
\* result content is JSON with a widget field, and none otherwise, with or
\* without a tool-event handler.
C11_WidgetExtraction ==
    [][CompleteProcessed /\ onWidgetEvent # 0
       => WidgetTypes(delivered') =
              IF HasWidgetField(event'.data[2])
              THEN <<[to |-> onWidgetEvent, type |-> WidgetValue(event'.data[2])]>>
              ELSE <<>>]_vars

\* C11, amended: a tool.execution_complete event makes exactly one call of the
\* widget callback, with the payload's widget value as type, when a widget
\* callback is registered and the result content is JSON with a non-empty
\* widget field; it makes none when no widget callback is registered or the
\* content is absent, empty, not JSON, or has no widget value; with or without
\* a tool-event handler.
C11_WidgetExtractionNonEmpty ==
    [][CompleteProcessed
       => WidgetTypes(delivered') =
              IF onWidgetEvent # 0 /\ HasWidgetField(event'.data[2])
                    /\ WidgetValue(event'.data[2]) # ""
              THEN <<[to |-> onWidgetEvent, type |-> WidgetValue(event'.data[2])]>>
              ELSE <<>>]_vars

\* A widget-event was delivered while no tool-event handler is registered.
C11_Witness ==
    /\ onToolEvent = 0 /\ onWidgetEvent # 0
    /\ event.type = "tool.execution_complete"
    /\ WidgetTypes(delivered) = <<[to |-> onWidgetEvent, type |-> "timer"]>>
    /\ Len(delivered) = 1

\* ---- C12

\* chat() has issued its message in this step.
Sends(c) == calls[c].pc # "send" /\ calls'[c].pc = "send"

\* C12: the message chat() issues carries the pending attachment (the last
\* screenshot, unless expired) and the slot is cleared in the step that issues
\* it, before the send is awaited; a message issued with nothing pending
\* carries none; the settling of a send, resolved or rejected, leaves the slot
\* as it is; and no attachment is carried by two messages, however the calls
\* interleave.
C12_AttachmentConsumption ==
    /\ [][\A c \in Calls :
             /\ Sends(c)
                => IF lastScreenshot # 0 /\ ~expired
                   THEN /\ calls'[c].attached = lastScreenshot
                        /\ lastScreenshot' = 0
                        /\ carried' = Append(carried, lastScreenshot)
                   ELSE /\ calls'[c].attached = 0
                        /\ carried' = carried
             /\ calls[c].pc = "send" /\ calls'[c].pc # "send"
                => lastScreenshot' = lastScreenshot /\ carried' = carried]_vars
    /\ [](\A i, j \in 1..Len(carried) : i # j => carried[i] # carried[j])

\* Two chat() calls are awaiting their sends: the first message carries the
\* one screenshot taken, the second carries nothing.
C12_Witness ==
    /\ nshots = 1 /\ carried = <<1>> /\ lastScreenshot = 0
    /\ \E c, d \in Calls :
           /\ calls[c].pc = "send" /\ calls[c].attached = 1
           /\ calls[d].pc = "send" /\ calls[d].attached = 0

\* ---- C13

\* The last two operations recorded are cleanup() calls.
TwoCleanups ==
    /\ Len(hist) >= 2
    /\ hist[Len(hist) - 1].op = "cleanup" /\ hist[Len(hist)].op = "cleanup"

\* C13: a cleanup() that has returned resolved, with destroy() invoked on every
\* session the map held, the map empty and the client stopped, whatever
\* failed; and of two cleanup() calls in a row neither throws and the second
\* invokes no destroy() and no stop().
C13_Cleanup ==
    /\ \A c \in Calls :
           calls[c].op = "cleanup" /\ calls[c].pc = "done"
           => /\ calls[c].status = "resolved"
              /\ \A s \in calls[c].snap : sess[s].destroyCalls >= 1
              /\ sessions = EmptyMap
              /\ client = 0
    /\ TwoCleanups
       => /\ hist[Len(hist) - 1].out = "ok"
          /\ calls[One].pc \notin {"kdestroy", "kstop"}
          /\ calls[One].status # "rejected"

\* ---- C14

\* C14: the step in which compactSession()'s summary generation fails (the
\* summary sendAndWait rejects, times out, or resolves without content)
\* returns a failure value and changes neither the map nor any session: the
\* old session is not destroyed and stays the entry of its key.
C14_SummaryFailureKeepsSession ==
    [][\A c \in Calls :
           calls[c].pc = "csum" /\ calls'[c].pc = "done"
           => /\ calls'[c].status = "resolved" /\ calls'[c].value # "summary"
              /\ sessions' = sessions
              /\ sess' = sess]_vars

\* ---- C15

\* compactSession() returns {success: true, summary} in this step.
CompactSucceeds(c) ==
    /\ calls[c].op = "compact" /\ calls[c].pc # "done"
    /\ calls'[c].pc = "done" /\ calls'[c].value = "summary"

\* The steps of a compactSession() come in the order summary, teardown of the
\* old session, creation of the new one, priming; success follows the priming.
CompactOrder(c) ==
    calls'[c].op = "compact" /\ calls'[c].pc # calls[c].pc
    => /\ calls'[c].pc = "cdestroy" => calls[c].pc = "csum"
       /\ calls'[c].pc = "create" => calls[c].pc = "cdestroy"
       /\ calls'[c].pc = "cprime"
          => /\ calls[c].pc = "create"
             /\ calls'[c].session = nsess' /\ nsess' = nsess + 1
             /\ sessions'[calls[c].key] = calls'[c].session
       /\ calls'[c].value = "summary" => calls[c].pc = "cprime"

\* What a successful compactSession() leaves, the map entry aside: destroy()
\* and deleteSession() were invoked on the old session, and the session primed
\* is another one, created at the configured model.
CompactReplaced(c) ==
    /\ calls'[c].deleted # {}
    /\ \A old \in calls'[c].deleted :
           sess'[old].destroyCalls >= 1 /\ old # calls'[c].session
    /\ sess'[calls'[c].session].model = configModel'
    /\ sess'[calls'[c].session].destroyCalls = 0

\* A session.error event of a session of key k was processed since the last
\* call began.
ErrorSinceCall(k) ==
    \E i \in (LastCall + 1)..Len(hist) : hist[i].op = "session.error" /\ hist[i].key = k

\* C15 as stated: when compactSession(k) returns success, the old session has
\* been torn down, the map holds for k another session, created after the
\* teardown at the configured model and primed, and the steps came in the
\* order summary, destroy, create, prime.
C15_CompactSuccess ==
    [][\A c \in Calls :
           /\ CompactOrder(c)
           /\ CompactSucceeds(c)
              => /\ CompactReplaced(c)
                 /\ sessions'[calls[c].key] = calls'[c].session]_vars

\* C15, amended: as stated, except that the map holds the new session for k
\* only if no session.error event of a session of key k was processed during
\* the call; if one was, the key may have no entry.
C15_CompactSuccessUnlessError ==
    [][\A c \in Calls :
           /\ CompactOrder(c)
           /\ CompactSucceeds(c)
              => /\ CompactReplaced(c)
                 /\ sessions'[calls[c].key] \in {0, calls'[c].session}
                 /\ ~ErrorSinceCall(calls[c].key)
                    => sessions'[calls[c].key] = calls'[c].session]_vars

\* compactSession(1) has returned success and the map holds the new session.
C15_Witness ==
    /\ calls[One].op = "compact" /\ calls[One].pc = "done"
    /\ calls[One].value = "summary" /\ calls[One].key = 1
    /\ sessions[1] = calls[One].session /\ calls[One].session \notin calls[One].deleted
    /\ calls[One].deleted # {}

\* ---- C16

NoSession == "No active session to compact"

\* compactSession(k) is called for a key without a session: it returns the
\* failure at once and creates, destroys and removes nothing.
CompactNoSession(c) ==
    /\ ncalls' = ncalls + 1 /\ calls'[c].op = "compact"
    /\ sessions[calls'[c].key] = 0
    => /\ calls'[c].pc = "done" /\ calls'[c].status = "resolved"
       /\ calls'[c].value = NoSession
       /\ sessions' = sessions /\ sess' = sess /\ nsess' = nsess
       /\ createCalls' = createCalls /\ currentModel' = currentModel

\* C16 as stated: compactSession() never rejects; when its summary send, the
\* old session's teardown, the creation of the new session or the priming
\* send failed, it resolves to a failure value; for a key without a session
\* it returns a failure and changes nothing.
C16_CompactNeverThrows ==
    /\ [](\A c \in Calls :
             calls[c].op = "compact" /\ calls[c].pc = "done"
             => /\ calls[c].status = "resolved"
                /\ calls[c].failedAt # "" \/ calls[c].tdFail
                   => calls[c].value # "summary")
    /\ [][\A c \in Calls : CompactNoSession(c)]_vars

\* C16, amended: compactSession() never rejects; when its summary send, the
\* creation of the new session or the priming send failed, it resolves to a
\* failure value; a failure of the old session's teardown is swallowed and
\* the call goes on to the result it would have had; for a key without a
\* session it returns a failure and changes nothing.
C16_CompactNeverThrowsTeardownSwallowed ==
    /\ [](\A c \in Calls :
             calls[c].op = "compact" /\ calls[c].pc = "done"
             => /\ calls[c].status = "resolved"
                /\ calls[c].failedAt # "" => calls[c].value # "summary"
                /\ calls[c].failedAt = "" => calls[c].value \in {"summary", NoSession})
    /\ [][\A c \in Calls : CompactNoSession(c)]_vars

\* A compactSession() whose priming send failed after the old session's
\* teardown had failed too has returned a failure value.
C16_Witness ==
    /\ calls[One].op = "compact" /\ calls[One].pc = "done"
    /\ calls[One].failedAt = "prime" /\ calls[One].tdFail
    /\ calls[One].status = "resolved" /\ calls[One].value \in SendErrors

\* ---- C17

\* C17: createSession is only ever invoked on a client whose start() has
\* completed successfully, however initialize(), chat(), listModels() and
\* compactSession() interleave and whichever start() failed.
C17_InitBeforeCreate ==
    [][\A c \in Calls :
           calls[c].pc # "create" /\ calls'[c].pc = "create"
           => client' # 0 /\ cstate'[client'] = "started"]_vars

\* ---- C18

\* The service is initialized: it has a client whose start() has completed.
Initialized == client # 0 /\ cstate[client] = "started"

\* C18: initialize() called on an initialized service constructs no client
\* and starts none, and the client and the sessions stay the ones in use.
C18_InitializeIdempotent ==
    [][\A c \in Calls :
           /\ ncalls' = ncalls + 1 /\ calls'[c].op = "initialize" /\ calls[c] # calls'[c]
           /\ Initialized
           => /\ nclients' = nclients /\ client' = client /\ cstate' = cstate
              /\ sessions' = sessions]_vars

\* ---- C19

\* The step processes a session.error event of session s.
ErrorProcessed(s) ==
    /\ Len(hist') = Len(hist) + 1
    /\ hist'[Len(hist')].op = "session.error"
    /\ hist'[Len(hist')].session = s

\* C19: when a session emits session.error, its key has no record afterwards
\* (so the next chat() for the key creates a session) and destroy() has been
\* invoked on the session.
C19_ErrorTearsDown ==
    [][\A s \in SessionIds :
           ErrorProcessed(s)
           => /\ sessions'[sess[s].key] = 0
              /\ sess'[s].destroyCalls >= 1]_vars

\* ---- C20

\* The step processes a session event.
EventProcessed == nevents' = nevents + 1

\* The calls of one kind of callback among the calls made for an event.
CallsOf(kind, made) == SelectSeq(made, LAMBDA call : call.kind = kind)

\* The result contents that report a successful capture with a path or a url.
HasScreenshot(content) ==
    content \in {"{\"success\":true,\"path\":\"/p\"}",
                 "{\"widget\":\"timer\",\"success\":true,\"url\":\"u\"}"}

\* How many events of a kind the session event ev gives rise to, given the
\* table of the tools that started.
Emitted(kind, ev, tools) ==
    CASE kind = "tool" ->
             IF ev.type \in {"tool.execution_start", "tool.execution_complete",
                             "session.compaction_start", "session.compaction_complete"}
             THEN 1 ELSE 0
      [] kind = "stream" ->
             IF ev.type = "assistant.message_delta"
                    /\ ev.data[1] # "" /\ ev.data[2] = ""
             THEN 1 ELSE 0
      [] kind = "usage" ->
             IF ev.type = "assistant.usage" /\ ev.data[1] # "" THEN 1 ELSE 0
      [] kind = "widget" ->
             IF ev.type = "tool.execution_complete"
                    /\ HasWidgetField(ev.data[2]) /\ WidgetValue(ev.data[2]) # ""
             THEN 1 ELSE 0
      [] kind = "screenshot" ->
             IF ev.type = "tool.execution_complete"
                    /\ tools[ev.data[1]] = "capture_screenshot"
                    /\ HasScreenshot(ev.data[2])
             THEN 1 ELSE 0

\* C20: for each kind of event (tool, widget, stream, screenshot, usage), the
\* events a session event gives rise to are each handed to one callback, the
\* one most recently registered for the kind when the session event is
\* processed, whenever it was registered; no call goes to a callback
\* registered before it, and with none registered no call is made.
C20_SingleSlot ==
    [][EventProcessed
       => \A kind \in EventKinds :
              /\ \A i \in DOMAIN delivered' :
                     delivered'[i].kind = kind
                     => registered[kind] # 0 /\ delivered'[i].to = registered[kind]
              /\ Len(CallsOf(kind, delivered')) =
                     IF registered[kind] # 0 THEN Emitted(kind, event', activeTools)
                                             ELSE 0]_vars

\* A widget-event was handed to callback 2, registered for the widget kind
\* after callback 1, both after the session was created; no other kind has a
\* callback, and the tool-event of the same session event was dropped.
C20_Witness ==
    /\ Len(delivered) = 1
    /\ delivered[1].kind = "widget" /\ delivered[1].to = 2
    /\ delivered[1].arg[1] = "timer"
    /\ event.type = "tool.execution_complete"
    /\ sess[event.session].regs = 0
    /\ nregs = 2
    /\ registered = [kind \in EventKinds |-> IF kind = "widget" THEN 2 ELSE 0]

\* ---- C21

\* C21: while chat() calls interleave at their awaits and the configured
\* model changes, the map never holds two sessions created with different
\* models.
C21_NoMixedModels ==
    \A j \in Keys, k \in Keys :
        sessions[j] # 0 /\ sessions[k] # 0 => ModelOf(j) = ModelOf(k)

\* ---- C22

\* The step stores another session over the session the map holds for k.
Overwrites(k) ==
    sessions[k] # 0 /\ sessions'[k] # 0 /\ sessions'[k] # sessions[k]

\* Two of the chat() calls begun so far name key k.
TwoCallsOn(k) ==
    \E i \in DOMAIN hist, j \in DOMAIN hist : i < j /\ hist[i].key = k /\ hist[j].key = k

\* C22: an insertion over a session the map holds for a key happens only when
\* two chat() calls were issued for that key; chat() calls on distinct keys
\* never overwrite an entry. (That two calls on one key do reach the
\* overwrite, with the first session left undestroyed, is C22_Witness.)
C22_OverwriteOnlySameKey ==
    [][\A k \in Keys : Overwrites(k) => TwoCallsOn(k)]_vars

\* Two chat() calls for one key, the second issued before the first returned,
\* both invoked createSession; the second session replaced the first in the
\* map, and destroy() was never invoked on the first.
C22_Witness ==
    \E k \in Keys, s \in SessionIds :
        /\ Len(hist) = 2 /\ hist[1].key = k /\ hist[2].key = k
        /\ createCalls = 2 /\ nsess = 2
        /\ sess[s].key = k /\ sess[s].subscribed /\ s # sessions[k]
        /\ sessions[k] # 0 /\ sess[sessions[k]].key = k
        /\ sess[s].destroyCalls = 0
        /\ \A c \in Calls : calls[c].pc = "done" /\ calls[c].status = "resolved"

\* ---- C23

\* C23: a session's 'complete' tool-event carries the tool name of that
\* session's own start event for the call id, when that start was recorded
\* (a tool-event handler was registered and the 'start' tool-event emitted),
\* whatever other sessions started or completed under the same call id.
C23_PerSessionTable ==
    \A i, j \in 1..Len(evLog) :
        Completes(i, j) /\ evLog[i].emitted # <<>> /\ evLog[j].emitted # <<>>
        => evLog[j].emitted[1].toolName = evLog[i].toolName

\* ---- C24

\* The last event processed for call id, or 0 when there is none.
LastFor(id) ==
    LET I == {i \in 1..Len(evLog) : evLog[i].toolCallId = id}
    IN  IF I = {} THEN 0 ELSE CHOOSE i \in I : \A m \in I : m <= i

\* C24: the active-tool-call table holds exactly the call ids whose last
\* event processed is a tool.execution_start, each with the name that event
\* gave, whether or not a tool-event handler was registered at that moment.
C24_TableContent ==
    \A id \in CallIds :
        activeTools[id] =
            IF LastFor(id) # 0 /\ evLog[LastFor(id)].type = "start"
            THEN evLog[LastFor(id)].toolName ELSE ""

\* ---- C25

\* C25: a tool.execution_complete event whose call id has no entry in the
\* active-call table is processed without failing: the tool-event handler, if
\* one is registered, gets one 'complete' tool-event with the name "tool" and
\* the event's call id, and the entries of the other call ids stay as they are.
C25_Placeholder ==
    [][CompleteProcessed /\ activeTools[event'.data[1]] = ""
       => /\ CallsOf("tool", delivered') =
                 IF onToolEvent # 0
                 THEN <<[kind |-> "tool", to |-> onToolEvent,
                         arg |-> <<"complete", "tool", event'.data[1]>>]>>
                 ELSE <<>>
          /\ \A id \in CallIds \ {event'.data[1]} : activeTools'[id] = activeTools[id]
          /\ activeTools'[event'.data[1]] = ""]_vars

\* The completion of c1, which had no entry, gave the placeholder while the
\* call c2 is still in flight with its name.
C25_Witness ==
    /\ event.type = "tool.execution_complete" /\ event.data[1] = "c1"
    /\ onToolEvent # 0
    /\ delivered # <<>>
    /\ delivered[1] = [kind |-> "tool", to |-> onToolEvent,
                       arg |-> <<"complete", "tool", "c1">>]
    /\ activeTools["c2"] = "X"

\* ---- C26

\* The event types the callback is specified to act on.
KnownTypes ==
    {"session.error", "tool.execution_start", "tool.execution_complete",
     "assistant.message_delta", "assistant.usage"}

\* C26: a session event of any other type calls no callback of any kind and
\* changes neither the session map, the watermark, the pending attachment
\* nor the active-call table.
C26_UnknownIgnored ==
    [][EventProcessed /\ event'.type \notin KnownTypes
       => /\ delivered' = <<>>
          /\ sessions' = sessions /\ currentModel' = currentModel
          /\ lastScreenshot' = lastScreenshot /\ activeTools' = activeTools]_vars

\* ---- C27

\* The optional properties the result content contains.
FieldsIn(content) ==
    CASE content = CountdownResult -> {"duration", "label"}
      [] content \in {WifiResult, WifiOffResult}
             -> {"enabled", "connected", "currentNetwork", "savedNetworks"}
      [] OTHER -> {}

\* C27: a widget-event carries no value for an optional property that the
\* tool's result does not contain (no null or other sentinel in its place).
C27_AbsentOmitted ==
    [][CompleteProcessed
       => \A i \in DOMAIN delivered' :
              delivered'[i].kind = "widget"
              => \A f \in OptionalFields \ FieldsIn(event'.data[2]) :
                     delivered'[i].arg[2][f] = Undefined]_vars

\* ---- C28

\* The place of a kind of event in the emissions of one completion.
Rank(kind) ==
    CASE kind = "tool" -> 1 [] kind = "widget" -> 2 [] kind = "screenshot" -> 3
      [] OTHER -> 0

\* C28: the calls made for one tool.execution_complete event are, in this
\* order, the 'complete' tool-event for the event's call id, the widget-event
\* and the screenshot-event (each at most once, the last two only after the
\* first); an event of another type emits no widget-event and no
\* screenshot-event.
C28_EmissionOrder ==
    [][EventProcessed
       => IF event'.type = "tool.execution_complete"
          THEN /\ \A i \in DOMAIN delivered' : Rank(delivered'[i].kind) > 0
               /\ \A i, j \in DOMAIN delivered' :
                      i < j => Rank(delivered'[i].kind) < Rank(delivered'[j].kind)
               /\ \A i \in DOMAIN delivered' :
                      delivered'[i].kind = "tool"
                      => /\ delivered'[i].arg[1] = "complete"
                         /\ delivered'[i].arg[3] = event'.data[1]
          ELSE \A i \in DOMAIN delivered' :
                   delivered'[i].kind \notin {"widget", "screenshot"}]_vars

\* One completion emitted the 'complete' tool-event, then the widget-event,
\* then the screenshot-event.
C28_Witness ==
    /\ event.type = "tool.execution_complete"
    /\ Len(delivered) = 3
    /\ delivered[1].kind = "tool" /\ delivered[1].arg[1] = "complete"
    /\ delivered[2].kind = "widget"
    /\ delivered[3].kind = "screenshot"

\* ---- C29

\* The name of the tool that started call id on session s and has not
\* completed, by the record of the events processed; "" when there is none.
StartedName(s, id) ==
    LET I == {i \in 1..Len(evLog) : evLog[i].session = s /\ evLog[i].toolCallId = id}
        last == CHOOSE i \in I : \A m \in I : m <= i
    IN  IF I # {} /\ evLog[last].type = "start" THEN evLog[last].toolName ELSE ""

\* The path and the url of a result that reports a capture.
ScreenshotArg(content) ==
    IF content = "{\"success\":true,\"path\":\"/p\"}" THEN <<"/p", Undefined>>
                                                       ELSE <<Undefined, "u">>

\* C29: with a screenshot callback registered, a tool.execution_complete
\* event emits a screenshot-event, with the result's path and url, exactly
\* when the tool that started its call id is capture_screenshot and the
\* result reports success with a path or a url.
C29_ScreenshotRule ==
    [][CompleteProcessed /\ onScreenshotEvent # 0
       => CallsOf("screenshot", delivered') =
              IF /\ StartedName(event'.session, event'.data[1]) = "capture_screenshot"
                 /\ HasScreenshot(event'.data[2])
              THEN <<[kind |-> "screenshot", to |-> onScreenshotEvent,
                      arg |-> ScreenshotArg(event'.data[2])]>>
              ELSE <<>>]_vars

\* ---- C30

\* The step processes an assistant.message_delta event.
DeltaProcessed == EventProcessed /\ event'.type = "assistant.message_delta"

\* C30: an assistant.message_delta event is handed to the stream callback,
\* once, with its message id and content, exactly when a stream callback is
\* registered and the delta has content and no parent tool call id; it calls
\* no other callback, and the session map, the watermark, the client, the
\* active-call table, the pending attachment and the callbacks are unchanged.
C30_StreamDelta ==
    [][DeltaProcessed
       => /\ delivered' =
                 IF onStreamDelta # 0 /\ event'.data[1] # "" /\ event'.data[2] = ""
                 THEN <<[kind |-> "stream", to |-> onStreamDelta,
                         arg |-> <<"msg", event'.data[1]>>]>>
                 ELSE <<>>
          /\ sessions' = sessions /\ currentModel' = currentModel /\ client' = client
          /\ sess' = sess /\ activeTools' = activeTools
          /\ lastScreenshot' = lastScreenshot /\ calls' = calls
          /\ onStreamDelta' = onStreamDelta /\ onToolEvent' = onToolEvent]_vars

\* A delta with content and no parent was forwarded to the stream callback
\* while a tool call is in flight.
C30_Witness ==
    /\ event.type = "assistant.message_delta"
    /\ event.data = <<"d", "">>
    /\ onStreamDelta # 0
    /\ delivered = <<[kind |-> "stream", to |-> onStreamDelta, arg |-> <<"msg", "d">>]>>
    /\ activeTools["c1"] # ""

\* ---- C31

\* The step processes an assistant.usage event.
UsageProcessed == EventProcessed /\ event'.type = "assistant.usage"

\* C31: an assistant.usage event is handed to the usage callback, once, with
\* the model it reports and its token and cost counts, exactly when a usage
\* callback is registered and the event reports a model, whether or not that
\* model is the watermark; the watermark and the session map are unchanged.
C31_ModelUsage ==
    [][UsageProcessed
       => /\ delivered' =
                 IF onModelUsage # 0 /\ event'.data[1] # ""
                 THEN <<[kind |-> "usage", to |-> onModelUsage, arg |-> event'.data]>>
                 ELSE <<>>
          /\ currentModel' = currentModel /\ sessions' = sessions]_vars

\* A usage event naming a model other than the watermark was forwarded with
\* its counts.
C31_Witness ==
    /\ event.type = "assistant.usage"
    /\ event.data[1] \in Models /\ event.data[1] # currentModel
    /\ onModelUsage # 0
    /\ delivered = <<[kind |-> "usage", to |-> onModelUsage,
                      arg |-> <<event.data[1], "12", "7", "0.5">>]>>

\* ---- C32

\* The recreate-on-change teardown of call c settles in this step.
TeardownSettled(c) == calls[c].pc = "teardown" /\ calls'[c].pc # "teardown"

\* C32: when the teardown of a model change settles, destroy() has been
\* invoked on every session the map held, whether or not destructions failed;
\* the map is cleared, the watermark is the configured model, and chat() goes
\* on to createSession for its key; a chat() whose teardown failed and whose
\* creation and send succeeded resolves, on a session created after it.
C32_BestEffortTeardown ==
    /\ [][\A c \in Calls :
              TeardownSettled(c)
              => /\ \A s \in calls[c].snap : sess'[s].destroyCalls >= 1
                 /\ \A k \in Keys : sessions'[k] = 0
                 /\ currentModel' = calls[c].cfg
                 /\ calls'[c].pc = "create" /\ createCalls' = createCalls + 1]_vars
    /\ [](\A c \in Calls :
             /\ calls[c].op = "chat" /\ calls[c].pc = "done"
             /\ calls[c].snap # {} /\ calls[c].failedAt = ""
             => /\ calls[c].status = "resolved"
                /\ calls[c].session \notin calls[c].snap
                /\ sess[calls[c].session].model = calls[c].cfg)

\* A chat() that found a session of another model, and whose teardown had a
\* failing destruction, created a session at the new model and resolved on it.
C32_Witness ==
    \E c \in Calls :
        /\ calls[c].op = "chat" /\ calls[c].pc = "done" /\ calls[c].status = "resolved"
        /\ calls[c].snap # {} /\ calls[c].tdFail
        /\ sessions[calls[c].key] = calls[c].session
        /\ sess[calls[c].session].model = currentModel
        /\ \A s \in calls[c].snap : sess[s].destroyCalls >= 1 /\ sess[s].model # currentModel

\* ---- C33

\* C33: a session.error event of a session that is no longer the entry of
\* its key leaves the session now stored under that key in the map.
C33_EvictByIdentity ==
    [][\A s \in SessionIds :
           ErrorProcessed(s) /\ sessions[sess[s].key] # s
           => sessions'[sess[s].key] = sessions[sess[s].key]]_vars

\* ---- C34

\* C34: with the calls awaited one after the other, whenever no call is in
\* flight every session createSession returned is the entry of its key or has
\* had destroy() invoked on it.
C34_NoLeak ==
    Quiet => \A s \in 1..nsess :
                 sessions[sess[s].key] = s \/ sess[s].destroyCalls >= 1

\* ---- C35

\* The chat() calls issued so far are on keys that all differ.
DistinctKeys ==
    \A i \in DOMAIN hist, j \in DOMAIN hist : i # j => hist[i].key # hist[j].key

\* Call c returns in this step, resolved.
Resolves(c) ==
    calls[c].pc # "done" /\ calls'[c].pc = "done" /\ calls'[c].status = "resolved"

\* C35: when chat() calls on different keys interleave, also during a model
\* change, a chat(p, k) that resolves leaves the session that served it as
\* the entry of k, and destroy() has not been invoked on that session.
C35_SuccessKeepsSession ==
    [][\A c \in Calls :
           Resolves(c) /\ DistinctKeys
           => /\ sessions'[calls'[c].key] = calls'[c].session
              /\ sess'[calls'[c].session].destroyCalls = 0]_vars

\* ---- C36

\* In this step call c takes its session from the map (getOrCreateSession
\* returns the existing entry, or compactSession reads the entry of its key)
\* and goes on to send on it.
FromMap(c) ==
    /\ calls'[c].pc \in {"send", "csum", "cprime"}
    /\ calls[c].pc \notin {"create", calls'[c].pc}

\* C36: however chat(), compactSession() and cleanup() interleave, a session
\* a call takes from the map has not had destroy() invoked on it.
C36_NoDestroyedFromMap ==
    [][\A c \in Calls :
           FromMap(c) => sess'[calls'[c].session].destroyCalls = 0]_vars

\* C37: cleanup() is final with respect to calls in flight: when every call
\* has returned and the client is the one cleanup() stopped and dropped
\* (this.client is null), the session map is empty, whatever call was
\* suspended at createSession or at a send while cleanup() ran.
C37_CleanupFinal ==
    (client = 0 /\ \A c \in Calls : Free(c)) => sessions = EmptyMap

Completed(c) ==
    calls[c].pc = "done" /\ calls[c].status \in {"resolved", "rejected"}

\* C38: when every backend call eventually returns or throws, every chat(),
\* compactSession() and cleanup() call that was begun eventually resolves or
\* rejects, whatever other calls, session.error events and configuration
\* changes interleave with it.
C38_EveryCallCompletes ==
    \A c \in Calls : (~Free(c)) ~> Completed(c)

\* Two calls that were in flight together have both returned, one of them a
\* chat() that rejected after its send failed.
C38_Witness ==
    /\ ncalls = MaxCalls
    /\ \A c \in Calls : Completed(c)
    /\ \E c \in Calls : calls[c].op = "chat" /\ calls[c].failedAt = "send"
    /\ \E c \in Calls : calls[c].op \in {"compact", "cleanup"}

====
